---- MODULE Spec2Model ----
(***************************************************************************)
(* A model of cinatra's coro_http_server                                   *)
(* (include/ylt/thirdparty/cinatra/coro_http_server.hpp).                  *)
(*                                                                         *)
(* The specifications of the module:                                       *)
(*   Spec        the server life cycle: start, the acceptor coroutine,     *)
(*               the connection table, the idle reaper and stop();         *)
(*   SpecLive    Spec with the fairness of the executor and of stop();     *)
(*   SpecConc    stop() called by several threads at once;                 *)
(*   SpecAccept  the acceptor loop with accepts that fail;                 *)
(*   SpecConfig  calls of set_static_res_dir;                              *)
(*   SpecStatic  one run of the GET handler set_static_res_dir registers;  *)
(*   SpecProxy   one run of the reverse-proxy handler (reply).             *)
(* Time is discrete; one unit is one second.                               *)
(***************************************************************************)
EXTENDS Integers, Sequences, FiniteSets, TLC

\* ------------------------------------------------------------------ bounds
MaxConns == 2
MaxTime == 3
NumStoppers == 2
MaxTimeout == 1
MaxCheck == 1
MaxAborted == 1
MaxFileSize == 3
MaxChunk == 2
MaxRanges == 2
\* the length of the mime type string of the served file
MimeLen == 10

\* check_duration_ = std::chrono::seconds(15)
DefaultCheckDuration == 15

Conns == 1..MaxConns
Stoppers == 1..NumStoppers

VARIABLES
  \* ---- coro_http_server members
  mode,              \* which constructor built the server: "owned" | "borrowed"
  out_ctx_,          \* TRUE iff out_ctx_ != nullptr
  thd_,              \* "none" | "running" (joinable) | "joined"
  poolState,         \* pool_: "none" | "idle" | "running" | "stopped"
  acceptor_,         \* "unopened" | "listening" | "closed"
  waiter,            \* acceptor_close_waiter_: "unset" | "set"
  futureRetrieved,   \* acceptor_close_waiter_.get_future() was called
  conn_id_,
  connections_,      \* function: ConnectionId -> connection handle
  need_check_,
  stop_timer_,
  timeout_duration_,
  check_duration_,
  timerWaits,        \* the waits outstanding on check_timer_
  timerAborted,      \* wait callbacks completed with operation_aborted, not yet run
  timerExpiry,       \* check_timer_'s expiry
  timerPeriod,       \* the duration the outstanding wait was armed with
  \* ---- tasks and callers
  phase,             \* "constructed" | "running" | "startFailed"
  startResult,       \* the value of the future async_start returned
  acc_pc,            \* accept(): "none" | "waiting" | "spawn" | "done"
  accepted,          \* ConnectionIds in accept order (accepted[h] is h's id)
  closePosted,       \* close_acceptor lambdas dispatched and not yet run
  th_pc,             \* the check_timer_ wait callback: "idle" | "sweep" | "rearm"
  pcS,               \* each caller of stop(): its position in stop()
  overlapped,        \* some call of stop() began while another was in progress
  \* ---- connections (coro_http_connection, one per accepted socket)
  connClosed,        \* the server called close(false) on the connection
  last_rwtime,
  driver,            \* start_one(conn): "none" | "running" | "finished"
  acc,               \* accept(): executors obtained, failed accepts (see AccInit)
  now,
  \* ---- static file handler and proxy handler (SpecStatic, SpecProxy)
  st,
  px

lifeVars == <<mode, out_ctx_, thd_, poolState, acceptor_, waiter, futureRetrieved,
              conn_id_, connections_, need_check_, stop_timer_, timeout_duration_,
              check_duration_, timerWaits, timerExpiry, timerPeriod, timerAborted,
              phase, startResult, acc_pc, accepted, closePosted, th_pc, pcS, overlapped,
              connClosed, last_rwtime, driver, acc, now>>

vars == <<lifeVars, st, px>>

\* ------------------------------------------------------------ helpers

\* the executor the acceptor, the timer and the drivers run on executes
\* handlers: the owned pool between pool_->run() and pool_->stop(); a
\* borrowed reactor is run by its owner.
ExecRunning == IF mode = "owned" THEN poolState = "running" ELSE TRUE

\* mutants of the entry guard of stop(): one that only recognises a server
\* that was never started, one that never returns early
StopGuardNeverStarted(octx, thd) == (~octx) /\ thd = "none"
StopGuardAbsent(octx, thd) == FALSE

\* stop(): if (out_ctx_ == nullptr && !thd_.joinable()) return;
StopGuard(octx, thd) == (~octx) /\ thd # "running"

\* mutant: the counter is read without being incremented
NextConnIdStuck(c) == c

\* accept(): uint64_t conn_id = ++conn_id_;
NextConnId(c) == c + 1

\* connections_.emplace(conn_id, conn): an existing key keeps its value
Emplace(tbl, id, h) ==
  [k \in (DOMAIN tbl) \cup {id} |-> IF k \in DOMAIN tbl THEN tbl[k] ELSE h]

\* connections_.erase(id)
Erase(tbl, id) == [k \in (DOMAIN tbl) \ {id} |-> tbl[k]]

\* mutant: the quit callback leaves the entry in the table
QuitCallbackKeeps(tbl, id) == tbl

\* mutant: the quit callback empties the table
QuitCallbackClears(tbl, id) == IF DOMAIN tbl # {} THEN << >> ELSE tbl

\* the quit callback: if (!connections_.empty()) connections_.erase(id);
QuitCallback(tbl, id) == IF DOMAIN tbl # {} THEN Erase(tbl, id) ELSE tbl

\* mutant: the sweep allows twice the timeout
ExpiredLate(cur, last, timeout) == cur - last > timeout + timeout

\* check_timeout(): cur_time - it->second->get_last_rwtime() > timeout_duration_
Expired(cur, last, timeout) == cur - last > timeout

\* the orders in which an iteration can meet the entries of the table (an
\* unordered_map)
Orders(S) ==
  {f \in [1..Cardinality(S) -> S] : \A i, j \in DOMAIN f : f[i] = f[j] => i = j}

\* mutant: the iterator is advanced once more after the erase, so the entry
\* that follows an erased one is not examined
RECURSIVE CheckTimeoutLoopSkips(_, _, _)
CheckTimeoutLoopSkips(tbl, keys, closed) ==
  IF keys = << >> THEN [tbl |-> tbl, closed |-> closed]
  ELSE LET k == Head(keys)
       IN IF Expired(now, last_rwtime[tbl[k]], timeout_duration_)
            THEN CheckTimeoutLoopSkips(Erase(tbl, k),
                                       IF Len(keys) > 1 THEN Tail(Tail(keys)) ELSE << >>,
                                       closed \cup {tbl[k]})
            ELSE CheckTimeoutLoopSkips(tbl, Tail(keys), closed)

\* the loop of check_timeout() over the entries still to visit:
\* close(false) and connections_.erase(it++) for an expired entry, ++it for
\* any other. It yields the table left and the connections closed.
RECURSIVE CheckTimeoutLoop(_, _, _)
CheckTimeoutLoop(tbl, keys, closed) ==
  IF keys = << >> THEN [tbl |-> tbl, closed |-> closed]
  ELSE LET k == Head(keys)
       IN IF Expired(now, last_rwtime[tbl[k]], timeout_duration_)
            THEN CheckTimeoutLoop(Erase(tbl, k), Tail(keys), closed \cup {tbl[k]})
            ELSE CheckTimeoutLoop(tbl, Tail(keys), closed)

\* the handles of a set of table entries
HandlesOf(tbl, ids) == {tbl[k] : k \in ids}

\* a caller is inside stop()
InStop(c) == pcS[c] \notin {"idle", "noop", "returned", "threw"}

\* mutant: setting the expiry leaves the outstanding waits in place
ExpiresAfterKeeps(waits) == 0

\* check_timer_.expires_after(d): the number of outstanding waits it cancels
\* (all of them; their callbacks are completed with operation_aborted)
ExpiresAfter(waits) == waits

\* mutant: the wait callback looks at the stop flag only
CallbackReturnsOnStopOnly(ec, stop) == stop

\* the wait callback: if (ec || stop_timer_) return;
CallbackReturns(ec, stop) == ec \/ stop

\* start_check_timer(): expires_after(check_duration_); async_wait(...)
StartCheckTimer ==
  LET cancelled == ExpiresAfter(timerWaits)
  IN /\ timerWaits' = timerWaits - cancelled + 1
     /\ timerAborted' = timerAborted + cancelled
     /\ timerExpiry' = now + check_duration_
     /\ timerPeriod' = check_duration_

\* accept()'s bookkeeping. Executors are named by the order in which the loop
\* obtained them: acquired counts them, executor is the one of the current
\* iteration, out_executor_ the ExecutorWrapper the server owns (borrowed
\* mode; 0 is nullptr), connExec[h] the executor connection h was built
\* with. errors counts the accepts that failed, ec is the last error, and
\* closeEc the error the acceptor's close makes the accept complete with.
AccInit ==
  [acquired |-> 0, executor |-> 0, out_executor_ |-> 0,
   connExec |-> [h \in Conns |-> 0], errors |-> 0, ec |-> "none",
   closeEc |-> "none"]

\* the head of an iteration of accept(): pool_->get_executor(), or a new
\* ExecutorWrapper that replaces the one out_executor_ owned
NextExecutor(a) ==
  [a EXCEPT !.acquired = a.acquired + 1,
            !.executor = a.acquired + 1,
            !.out_executor_ = IF out_ctx_ THEN a.acquired + 1 ELSE a.out_executor_]

\* mutant: only operation_aborted ends the loop
IsClosedErrorOnlyAborted(e) == e = "operation_aborted"

\* accept(): error == operation_aborted || error == bad_descriptor
IsClosedError(e) == e \in {"operation_aborted", "bad_descriptor"}

StIdle == [pc |-> "off"]
PxIdle == [pc |-> "off"]

\* ------------------------------------------------------------ Init

\* the members after construction by the constructor of mode m
LifeInit(m) ==
  /\ mode = m
  /\ out_ctx_ = (mode = "borrowed")
  /\ thd_ = "none"
  /\ poolState = IF mode = "owned" THEN "idle" ELSE "none"
  /\ acceptor_ = "unopened"
  /\ waiter = "unset"
  /\ futureRetrieved = FALSE
  /\ conn_id_ = 0
  /\ connections_ = << >>
  /\ need_check_ = FALSE
  /\ stop_timer_ = FALSE
  /\ timeout_duration_ = 0
  /\ check_duration_ = DefaultCheckDuration
  /\ timerWaits = 0
  /\ timerAborted = 0
  /\ timerExpiry = 0
  /\ timerPeriod = 0
  /\ phase = "constructed"
  /\ startResult = "none"
  /\ acc_pc = "none"
  /\ accepted = << >>
  /\ closePosted = 0
  /\ th_pc = "idle"
  /\ pcS = [c \in Stoppers |-> "idle"]
  /\ overlapped = FALSE
  /\ connClosed = [h \in Conns |-> FALSE]
  /\ last_rwtime = [h \in Conns |-> 0]
  /\ driver = [h \in Conns |-> "none"]
  /\ acc = AccInit
  /\ now = 0

Init ==
  /\ \E m \in {"owned", "borrowed"} : LifeInit(m)
  /\ st = StIdle
  /\ px = PxIdle

\* ------------------------------------------------------------ configuration

\* set_check_duration(duration), called before start
SetCheckDuration(d) ==
  /\ phase = "constructed"
  /\ check_duration_' = d
  /\ UNCHANGED <<mode, out_ctx_, thd_, poolState, acceptor_, waiter, futureRetrieved,
                 conn_id_, connections_, need_check_, stop_timer_, timeout_duration_,
                 timerWaits, timerExpiry, timerPeriod, timerAborted, phase, startResult, acc_pc,
                 accepted, closePosted, th_pc, pcS, overlapped, connClosed,
                 last_rwtime, driver, now, acc, st, px>>

\* set_timeout_duration(timeout_duration), called before start
SetTimeoutDuration(d) ==
  /\ phase = "constructed"
  /\ timerAborted < MaxAborted
  /\ IF d > 0
       THEN /\ need_check_' = TRUE
            /\ timeout_duration_' = d
            /\ StartCheckTimer
       ELSE UNCHANGED <<need_check_, timeout_duration_, timerWaits, timerExpiry,
                        timerPeriod, timerAborted>>
  /\ UNCHANGED <<mode, out_ctx_, thd_, poolState, acceptor_, waiter, futureRetrieved,
                 conn_id_, connections_, stop_timer_, check_duration_, phase,
                 startResult, acc_pc, accepted, closePosted, th_pc, pcS, overlapped,
                 connClosed, last_rwtime, driver, now, acc, st, px>>

\* ------------------------------------------------------------ start

\* what listen() can meet: bind succeeds and the local endpoint is read, bind
\* fails, or local_endpoint fails after a successful bind and listen
ListenOutcomes == {"ok", "bind_failed", "endpoint_failed"}

\* the std::errc listen() returns
Listen(outcome) == IF outcome = "ok" THEN "ok" ELSE "address_in_use"

\* mutant: the pool thread and the acceptor are started whatever listen() returned
SpawnsTasksAlways(ec) == TRUE

\* async_start(): if (ec == std::errc{}) { thd_ = ...; accept().start(...); }
SpawnsTasks(ec) == ec = "ok"

\* async_start(): listen(), then the pool thread and the acceptor coroutine,
\* or the future resolved with listen()'s error
Start(outcome) ==
  /\ phase = "constructed"
  /\ \A c \in Stoppers : pcS[c] = "idle"
  /\ LET ec == Listen(outcome)
     IN /\ acceptor_' = IF outcome = "bind_failed" THEN "closed" ELSE "listening"
        /\ phase' = IF ec = "ok" THEN "running" ELSE "startFailed"
        /\ IF SpawnsTasks(ec)
             THEN /\ thd_' = IF ~out_ctx_ THEN "running" ELSE thd_
                  /\ poolState' = IF ~out_ctx_ THEN "running" ELSE poolState
                  /\ acc_pc' = "waiting"
                  /\ startResult' = "pending"
                  /\ acc' = NextExecutor(acc)
             ELSE /\ startResult' = ec
                  /\ UNCHANGED <<thd_, poolState, acc_pc, acc>>
  /\ UNCHANGED <<mode, out_ctx_, waiter, futureRetrieved, conn_id_, connections_,
                 need_check_, stop_timer_, timeout_duration_, check_duration_,
                 timerWaits, timerExpiry, timerPeriod, timerAborted, accepted, closePosted, th_pc,
                 pcS, overlapped, connClosed, last_rwtime, driver, now, st, px>>

\* ------------------------------------------------------------ accept()

MaxAcceptErrors == 1

\* accept errors that do not come from closing the acceptor
TransientErrors == {"connection_aborted", "no_descriptors"}

\* async_accept succeeded: assign the id, build the connection on the
\* iteration's executor, install the quit callback, insert into the table
AcceptOk ==
  /\ acc_pc = "waiting"
  /\ acceptor_ = "listening"
  /\ ExecRunning
  /\ Len(accepted) < MaxConns
  /\ LET id == NextConnId(conn_id_)
         h == Len(accepted) + 1
     IN /\ conn_id_' = id
        /\ accepted' = Append(accepted, id)
        /\ connections_' = Emplace(connections_, id, h)
        /\ last_rwtime' = [last_rwtime EXCEPT ![h] = now]
        /\ acc' = [acc EXCEPT !.connExec[h] = acc.executor]
  /\ acc_pc' = "spawn"
  /\ UNCHANGED <<mode, out_ctx_, thd_, poolState, acceptor_, waiter, futureRetrieved,
                 need_check_, stop_timer_, timeout_duration_, check_duration_,
                 timerWaits, timerExpiry, timerPeriod, timerAborted, phase, startResult,
                 closePosted, th_pc, pcS, overlapped, connClosed, driver, now, st, px>>

\* start_one(conn).via(&conn->get_executor()).detach(); then the next
\* iteration up to its async_accept
AcceptSpawn ==
  /\ acc_pc = "spawn"
  /\ driver' = [driver EXCEPT ![Len(accepted)] = "running"]
  /\ acc_pc' = "waiting"
  /\ acc' = NextExecutor(acc)
  /\ UNCHANGED <<mode, out_ctx_, thd_, poolState, acceptor_, waiter, futureRetrieved,
                 conn_id_, connections_, need_check_, stop_timer_, timeout_duration_,
                 check_duration_, timerWaits, timerExpiry, timerPeriod, timerAborted, phase,
                 startResult, accepted, closePosted, th_pc, pcS, overlapped,
                 connClosed, last_rwtime, now, st, px>>

\* mutant: the loop sets the promise on the error of a closed acceptor and
\* goes on to the next iteration
AcceptFailedGoesOn(e) ==
  /\ waiter' = IF IsClosedError(e) THEN "set" ELSE waiter
  /\ acc' = [NextExecutor(acc) EXCEPT !.errors = acc.errors + 1, !.ec = e]
  /\ UNCHANGED <<mode, out_ctx_, thd_, poolState, acceptor_, futureRetrieved,
                 conn_id_, connections_, need_check_, stop_timer_, timeout_duration_,
                 check_duration_, timerWaits, timerExpiry, timerPeriod, timerAborted, phase,
                 accepted, closePosted, th_pc, pcS, overlapped, connClosed,
                 last_rwtime, driver, now, st, px, acc_pc, startResult>>

\* async_accept completed with error e: if (error) { ... }
AcceptFailed(e) ==
  /\ IF IsClosedError(e)
       THEN /\ waiter' = "set"
            /\ acc_pc' = "done"
            /\ startResult' = "operation_canceled"
            /\ acc' = [acc EXCEPT !.errors = acc.errors + 1, !.ec = e]
       ELSE /\ acc' = [NextExecutor(acc) EXCEPT !.errors = acc.errors + 1, !.ec = e]
            /\ UNCHANGED <<waiter, acc_pc, startResult>>
  /\ UNCHANGED <<mode, out_ctx_, thd_, poolState, acceptor_, futureRetrieved,
                 conn_id_, connections_, need_check_, stop_timer_, timeout_duration_,
                 check_duration_, timerWaits, timerExpiry, timerPeriod, timerAborted, phase,
                 accepted, closePosted, th_pc, pcS, overlapped, connClosed,
                 last_rwtime, driver, now, st, px>>

\* the acceptor was closed: the pending async_accept completes with
\* operation_aborted, one begun on the closed acceptor with bad_descriptor
AcceptAborted ==
  /\ acc_pc = "waiting"
  /\ acceptor_ = "closed"
  /\ ExecRunning
  /\ IsClosedError(acc.closeEc) \/ acc.errors < MaxAcceptErrors
  /\ AcceptFailed(acc.closeEc)

\* async_accept fails on the open acceptor
AcceptTransient(e) ==
  /\ acc_pc = "waiting"
  /\ acceptor_ = "listening"
  /\ ExecRunning
  /\ acc.errors < MaxAcceptErrors
  /\ AcceptFailed(e)

\* the lambda close_acceptor() dispatched: acceptor_.cancel(ec); acceptor_.close(ec)
CloseLambda ==
  /\ closePosted > 0
  /\ ExecRunning
  /\ acceptor_' = "closed"
  /\ closePosted' = closePosted - 1
  /\ acc' = IF acceptor_ = "listening" /\ acc_pc \in {"waiting", "spawn"}
              THEN [acc EXCEPT !.closeEc = IF acc_pc = "waiting"
                                             THEN "operation_aborted"
                                             ELSE "bad_descriptor"]
              ELSE acc
  /\ UNCHANGED <<mode, out_ctx_, thd_, poolState, waiter, futureRetrieved, conn_id_,
                 connections_, need_check_, stop_timer_, timeout_duration_,
                 check_duration_, timerWaits, timerExpiry, timerPeriod, timerAborted, phase,
                 startResult, acc_pc, accepted, th_pc, pcS, overlapped, connClosed,
                 last_rwtime, driver, now, st, px>>

\* ------------------------------------------------------------ the reaper

\* check_timer_'s wait completes without error: if (ec || stop_timer_) return;
TimerFire ==
  /\ timerWaits > 0
  /\ timerExpiry <= now
  /\ ExecRunning
  /\ th_pc = "idle"
  /\ timerWaits' = timerWaits - 1
  /\ th_pc' = IF CallbackReturns(FALSE, stop_timer_) THEN "idle" ELSE "sweep"
  /\ UNCHANGED <<mode, out_ctx_, thd_, poolState, acceptor_, waiter, futureRetrieved,
                 conn_id_, connections_, need_check_, stop_timer_, timeout_duration_,
                 check_duration_, timerExpiry, timerPeriod, timerAborted, phase,
                 startResult, acc_pc, accepted, closePosted, pcS, overlapped,
                 connClosed, last_rwtime, driver, now, acc, st, px>>

\* the callback of a wait that was cancelled runs with ec = operation_aborted
TimerCancelled ==
  /\ timerAborted > 0
  /\ ExecRunning
  /\ th_pc = "idle"
  /\ timerAborted' = timerAborted - 1
  /\ th_pc' = IF CallbackReturns(TRUE, stop_timer_) THEN "idle" ELSE "sweep"
  /\ UNCHANGED <<mode, out_ctx_, thd_, poolState, acceptor_, waiter, futureRetrieved,
                 conn_id_, connections_, need_check_, stop_timer_, timeout_duration_,
                 check_duration_, timerWaits, timerExpiry, timerPeriod, phase,
                 startResult, acc_pc, accepted, closePosted, pcS, overlapped,
                 connClosed, last_rwtime, driver, now, acc, st, px>>

\* check_timeout(), under conn_mtx_
TimerSweep ==
  /\ th_pc = "sweep"
  /\ \E keys \in Orders(DOMAIN connections_) :
       LET swept == CheckTimeoutLoop(connections_, keys, {})
       IN /\ connClosed' = [h \in Conns |-> connClosed[h] \/ h \in swept.closed]
          /\ connections_' = swept.tbl
  /\ th_pc' = "rearm"
  /\ UNCHANGED <<mode, out_ctx_, thd_, poolState, acceptor_, waiter, futureRetrieved,
                 conn_id_, need_check_, stop_timer_, timeout_duration_,
                 check_duration_, timerWaits, timerExpiry, timerPeriod, timerAborted, phase,
                 startResult, acc_pc, accepted, closePosted, pcS, overlapped,
                 last_rwtime, driver, now, acc, st, px>>

\* start_check_timer() at the end of the wait callback
TimerRearm ==
  /\ th_pc = "rearm"
  /\ StartCheckTimer
  /\ th_pc' = "idle"
  /\ UNCHANGED <<mode, out_ctx_, thd_, poolState, acceptor_, waiter, futureRetrieved,
                 conn_id_, connections_, need_check_, stop_timer_, timeout_duration_,
                 check_duration_, phase, startResult, acc_pc, accepted, closePosted,
                 pcS, overlapped, connClosed, last_rwtime, driver, now, acc, st, px>>

\* ------------------------------------------------------------ stop()

\* the entry guard of stop(). The callers are interchangeable, so they are
\* numbered in the order in which they call.
StopEnter(c) ==
  /\ pcS[c] = "idle"
  /\ \A d \in Stoppers : d < c => pcS[d] # "idle"
  /\ overlapped' = (overlapped \/ \E d \in Stoppers : InStop(d))
  /\ pcS' = [pcS EXCEPT ![c] = IF StopGuard(out_ctx_, thd_) THEN "noop" ELSE "cancel"]
  /\ UNCHANGED <<mode, out_ctx_, thd_, poolState, acceptor_, waiter, futureRetrieved,
                 conn_id_, connections_, need_check_, stop_timer_, timeout_duration_,
                 check_duration_, timerWaits, timerExpiry, timerPeriod, timerAborted, phase,
                 startResult, acc_pc, accepted, closePosted, th_pc, connClosed,
                 last_rwtime, driver, now, acc, st, px>>

\* stop() called as documented ("only call once, not thread safe"): no call
\* begins while another is in progress
StopEnterAlone(c) ==
  /\ \A d \in Stoppers : ~InStop(d)
  /\ StopEnter(c)

\* stop_timer_ = true; check_timer_.cancel(ec);
StopCancel(c) ==
  /\ pcS[c] = "cancel"
  /\ stop_timer_' = TRUE
  /\ timerWaits' = 0
  /\ timerAborted' = timerAborted + timerWaits
  /\ pcS' = [pcS EXCEPT ![c] = "close"]
  /\ UNCHANGED <<mode, out_ctx_, thd_, poolState, acceptor_, waiter, futureRetrieved,
                 conn_id_, connections_, need_check_, timeout_duration_,
                 check_duration_, timerExpiry, timerPeriod, phase, startResult,
                 acc_pc, accepted, closePosted, th_pc, overlapped, connClosed,
                 last_rwtime, driver, now, acc, st, px>>

\* close_acceptor(): asio::dispatch(acceptor_.get_executor(), lambda), then
\* acceptor_close_waiter_.get_future(); a second get_future() on one
\* std::promise throws std::future_error out of stop()
StopCloseAcceptor(c) ==
  /\ pcS[c] = "close"
  /\ closePosted' = closePosted + 1
  /\ futureRetrieved' = TRUE
  /\ pcS' = [pcS EXCEPT ![c] = IF futureRetrieved THEN "threw" ELSE "wait"]
  /\ UNCHANGED <<mode, out_ctx_, thd_, poolState, acceptor_, waiter, conn_id_,
                 connections_, need_check_, stop_timer_, timeout_duration_,
                 check_duration_, timerWaits, timerExpiry, timerPeriod, timerAborted, phase,
                 startResult, acc_pc, accepted, th_pc, overlapped, connClosed,
                 last_rwtime, driver, now, acc, st, px>>

\* mutant: the wait returns without the value being set
FutureReadyAtOnce(w) == TRUE

\* acceptor_close_waiter_.get_future().wait() returns once the value is set
FutureReady(w) == w = "set"

\* close_acceptor(): .wait() returns once the acceptor loop has set the value
StopWait(c) ==
  /\ pcS[c] = "wait"
  /\ FutureReady(waiter)
  /\ pcS' = [pcS EXCEPT ![c] = "closeall"]
  /\ UNCHANGED <<mode, out_ctx_, thd_, poolState, acceptor_, waiter, futureRetrieved,
                 conn_id_, connections_, need_check_, stop_timer_, timeout_duration_,
                 check_duration_, timerWaits, timerExpiry, timerPeriod, timerAborted, phase,
                 startResult, acc_pc, accepted, closePosted, th_pc, overlapped,
                 connClosed, last_rwtime, driver, now, acc, st, px>>

\* under conn_mtx_: conn.second->close(false) for every entry; connections_.clear()
StopCloseAll(c) ==
  /\ pcS[c] = "closeall"
  /\ connClosed' = [h \in Conns |->
                      connClosed[h] \/ h \in HandlesOf(connections_, DOMAIN connections_)]
  /\ connections_' = << >>
  /\ pcS' = [pcS EXCEPT ![c] = "tail"]
  /\ UNCHANGED <<mode, out_ctx_, thd_, poolState, acceptor_, waiter, futureRetrieved,
                 conn_id_, need_check_, stop_timer_, timeout_duration_,
                 check_duration_, timerWaits, timerExpiry, timerPeriod, timerAborted, phase,
                 startResult, acc_pc, accepted, closePosted, th_pc, overlapped,
                 last_rwtime, driver, now, acc, st, px>>

\* if (out_ctx_ == nullptr) { pool_->stop(); ... } else { out_ctx_ = nullptr; }
StopTail(c) ==
  /\ pcS[c] = "tail"
  /\ IF ~out_ctx_
       THEN /\ poolState' = "stopped"
            /\ pcS' = [pcS EXCEPT ![c] = "join"]
            /\ UNCHANGED out_ctx_
       ELSE /\ out_ctx_' = FALSE
            /\ pcS' = [pcS EXCEPT ![c] = "returned"]
            /\ UNCHANGED poolState
  /\ UNCHANGED <<mode, thd_, acceptor_, waiter, futureRetrieved, conn_id_,
                 connections_, need_check_, stop_timer_, timeout_duration_,
                 check_duration_, timerWaits, timerExpiry, timerPeriod, timerAborted, phase,
                 startResult, acc_pc, accepted, closePosted, th_pc, overlapped,
                 connClosed, last_rwtime, driver, now, acc, st, px>>

\* thd_.join(): returns when the pool thread has left pool_->run(), which it
\* does after the handler it is executing
StopJoin(c) ==
  /\ pcS[c] = "join"
  /\ th_pc = "idle"
  /\ acc_pc # "spawn"
  /\ thd_' = "joined"
  /\ pcS' = [pcS EXCEPT ![c] = "returned"]
  /\ UNCHANGED <<mode, out_ctx_, poolState, acceptor_, waiter, futureRetrieved,
                 conn_id_, connections_, need_check_, stop_timer_, timeout_duration_,
                 check_duration_, timerWaits, timerExpiry, timerPeriod, timerAborted, phase,
                 startResult, acc_pc, accepted, closePosted, th_pc, overlapped,
                 connClosed, last_rwtime, driver, now, acc, st, px>>

\* ------------------------------------------------------------ connection drivers

\* a driver reads or writes on its socket: the connection's last activity
DriverIO(h) ==
  /\ driver[h] = "running"
  /\ ~connClosed[h]
  /\ ExecRunning
  /\ last_rwtime[h] # now
  /\ last_rwtime' = [last_rwtime EXCEPT ![h] = now]
  /\ UNCHANGED <<mode, out_ctx_, thd_, poolState, acceptor_, waiter, futureRetrieved,
                 conn_id_, connections_, need_check_, stop_timer_, timeout_duration_,
                 check_duration_, timerWaits, timerExpiry, timerPeriod, timerAborted, phase,
                 startResult, acc_pc, accepted, closePosted, th_pc, pcS, overlapped,
                 connClosed, driver, now, acc, st, px>>

\* a driver leaves keep-alive (peer gone, or it observed close(false)): it
\* invokes the quit callback with its id and finishes. The connection is
\* destroyed with it (the table entry and the driver held the two
\* references); connClosed[h] keeps recording that the server had closed it.
DriverExit(h) ==
  /\ driver[h] = "running"
  /\ ExecRunning
  /\ connections_' = QuitCallback(connections_, accepted[h])
  /\ driver' = [driver EXCEPT ![h] = "finished"]
  /\ last_rwtime' = [last_rwtime EXCEPT ![h] = 0]
  /\ UNCHANGED <<mode, out_ctx_, thd_, poolState, acceptor_, waiter, futureRetrieved,
                 conn_id_, need_check_, stop_timer_, timeout_duration_,
                 check_duration_, timerWaits, timerExpiry, timerPeriod, timerAborted, phase,
                 startResult, acc_pc, accepted, closePosted, th_pc, pcS, overlapped,
                 connClosed, now, acc, st, px>>

\* ------------------------------------------------------------ time

\* a due wait of check_timer_, a cancelled wait's callback that is ready to
\* run and a running wait callback take no time while their executor runs
TimerUrgent ==
  ExecRunning /\ \/ (timerWaits > 0 /\ timerExpiry <= now)
                 \/ timerAborted > 0
                 \/ th_pc # "idle"

Tick ==
  /\ now < MaxTime
  /\ ~TimerUrgent
  /\ now' = now + 1
  /\ UNCHANGED <<mode, out_ctx_, thd_, poolState, acceptor_, waiter, futureRetrieved,
                 conn_id_, connections_, need_check_, stop_timer_, timeout_duration_,
                 check_duration_, timerWaits, timerExpiry, timerPeriod, timerAborted, phase,
                 startResult, acc_pc, accepted, closePosted, th_pc, pcS, overlapped,
                 connClosed, last_rwtime, driver, acc, st, px>>

\* ------------------------------------------------------------ specification

Next ==
  \/ \E d \in 1..MaxCheck : SetCheckDuration(d)
  \/ \E d \in 0..MaxTimeout : SetTimeoutDuration(d)
  \/ \E outcome \in ListenOutcomes : Start(outcome)
  \/ AcceptOk
  \/ AcceptSpawn
  \/ AcceptAborted
  \/ CloseLambda
  \/ TimerFire
  \/ TimerCancelled
  \/ TimerSweep
  \/ TimerRearm
  \/ \E c \in Stoppers : StopEnterAlone(c)
  \/ \E c \in Stoppers : StopCancel(c)
  \/ \E c \in Stoppers : StopCloseAcceptor(c)
  \/ \E c \in Stoppers : StopWait(c)
  \/ \E c \in Stoppers : StopCloseAll(c)
  \/ \E c \in Stoppers : StopTail(c)
  \/ \E c \in Stoppers : StopJoin(c)
  \/ \E h \in Conns : DriverIO(h)
  \/ \E h \in Conns : DriverExit(h)
  \/ Tick

Spec == Init /\ [][Next]_vars

\* A server without idle timeout whose stop() is called by several threads
\* at once.
NextConc ==
  \/ \E outcome \in ListenOutcomes : Start(outcome)
  \/ AcceptOk
  \/ AcceptSpawn
  \/ AcceptAborted
  \/ CloseLambda
  \/ \E c \in Stoppers : StopEnter(c)
  \/ \E c \in Stoppers : StopCancel(c)
  \/ \E c \in Stoppers : StopCloseAcceptor(c)
  \/ \E c \in Stoppers : StopWait(c)
  \/ \E c \in Stoppers : StopCloseAll(c)
  \/ \E c \in Stoppers : StopTail(c)
  \/ \E c \in Stoppers : StopJoin(c)
  \/ \E h \in Conns : DriverExit(h)

SpecConc == Init /\ [][NextConc]_vars

\* The acceptor loop with accepts that fail, up to one stop(); no idle
\* timeout.
NextAccept ==
  \/ \E outcome \in ListenOutcomes : Start(outcome)
  \/ AcceptOk
  \/ AcceptSpawn
  \/ \E e \in TransientErrors : AcceptTransient(e)
  \/ AcceptAborted
  \/ CloseLambda
  \/ \E c \in Stoppers : StopEnterAlone(c)
  \/ \E c \in Stoppers : StopCancel(c)
  \/ \E c \in Stoppers : StopCloseAcceptor(c)
  \/ \E c \in Stoppers : StopWait(c)
  \/ \E c \in Stoppers : StopCloseAll(c)
  \/ \E c \in Stoppers : StopTail(c)
  \/ \E c \in Stoppers : StopJoin(c)
  \/ \E h \in Conns : DriverExit(h)

SpecAccept == Init /\ [][NextAccept]_vars

\* Scheduling: a thread inside stop() goes on to its next statement, and an
\* executor that is running executes the handlers and resumes the coroutines
\* that are ready on it (the pool thread of an owned server; a borrowed
\* reactor is taken to be run by its owner).
Fairness ==
  /\ WF_vars(AcceptSpawn)
  /\ WF_vars(AcceptAborted)
  /\ WF_vars(CloseLambda)
  /\ WF_vars(TimerCancelled)
  /\ WF_vars(TimerSweep)
  /\ WF_vars(TimerRearm)
  /\ \A c \in Stoppers :
       /\ WF_vars(StopCancel(c))
       /\ WF_vars(StopCloseAcceptor(c))
       /\ WF_vars(StopWait(c))
       /\ WF_vars(StopCloseAll(c))
       /\ WF_vars(StopTail(c))
       /\ WF_vars(StopJoin(c))

SpecLive == Init /\ [][Next]_vars /\ Fairness

\* ------------------------------------------------------------ claims: life cycle

Started == phase = "running"
TableIds == DOMAIN connections_
AliveDrivers == {h \in Conns : driver[h] = "running"}
IdleTime(h) == now - last_rwtime[h]
ReaperOn == need_check_ /\ ~stop_timer_

\* C1: on a started server a stop() that begins after another stop() has
\* returned is a no-op: it returns at the entry guard and changes neither the
\* table, the acceptor, the reaper nor the pool; and once a stop() has
\* returned the table is empty and the acceptor is closed.
C1_StopTwice ==
  /\ [](\A c \in Stoppers :
          (Started /\ pcS[c] = "returned")
            => (connections_ = << >> /\ acceptor_ = "closed"))
  /\ [][\A c \in Stoppers :
          (Started /\ pcS[c] = "idle" /\ pcS'[c] # "idle"
             /\ \E d \in Stoppers : pcS[d] = "returned")
            => (pcS'[c] = "noop"
                /\ UNCHANGED <<connections_, acceptor_, closePosted, waiter,
                               stop_timer_, timerWaits, timerExpiry, th_pc,
                               poolState, thd_, out_ctx_>>)]_vars

C1_Witness ==
  /\ Started
  /\ mode = "borrowed"
  /\ ~overlapped
  /\ \E c, d \in Stoppers : pcS[c] = "returned" /\ pcS[d] = "noop"

\* a caller has passed the entry guard of stop()
PassedGuard(c) == pcS[c] \notin {"idle", "noop"}

\* the shutdown steps a caller of stop() has performed
DidCancel(c) ==
  pcS[c] \in {"close", "wait", "closeall", "tail", "join", "returned", "threw"}
DidCloseAcceptor(c) ==
  pcS[c] \in {"wait", "closeall", "tail", "join", "returned", "threw"}

\* C2 as stated: when callers of stop() on a started server overlap, no
\* shutdown step is executed twice (the reaper cancel and the acceptor close
\* are performed by at most one caller) and no caller leaves stop() other
\* than by returning.
C2_Original ==
  Started => /\ Cardinality({c \in Stoppers : DidCancel(c)}) <= 1
             /\ Cardinality({c \in Stoppers : DidCloseAcceptor(c)}) <= 1
             /\ \A c \in Stoppers : pcS[c] # "threw"

\* C2 amended: when no call of stop() begins while another is in progress,
\* at most one caller passes the entry guard and performs the shutdown steps,
\* every other caller returns at the guard, and none leaves by an exception.
C2_Sequential ==
  (Started /\ ~overlapped)
    => /\ Cardinality({c \in Stoppers : PassedGuard(c)}) <= 1
       /\ \A c \in Stoppers : pcS[c] # "threw"

C2_Witness ==
  /\ Started
  /\ mode = "owned"
  /\ ~overlapped
  /\ \E c \in Stoppers :
       /\ pcS[c] = "returned"
       /\ \A d \in Stoppers \ {c} : pcS[d] = "noop"

\* C3 as stated: the table has exactly as many entries as there are live
\* drivers (read whenever the acceptor is not between inserting an entry and
\* spawning its driver), and it is empty once stop() has returned.
C3_Original ==
  /\ acc_pc # "spawn" => Cardinality(TableIds) = Cardinality(AliveDrivers)
  /\ (\E c \in Stoppers : pcS[c] = "returned") => TableIds = {}

\* C3 amended: every table entry belongs to exactly one connection whose
\* driver is alive, or is the entry the acceptor has just inserted and is about
\* to spawn the driver of; no entry belongs to a finished driver; so
\* connection_count() is at most the number of live drivers plus the one being
\* spawned (drivers whose entry a sweep or stop() removed may still be
\* alive); and the table is empty once stop() has returned.
C3_TableDrivers ==
  /\ \A k \in TableIds :
       LET h == connections_[k]
       IN \/ driver[h] = "running"
          \/ (driver[h] = "none" /\ acc_pc = "spawn" /\ h = Len(accepted))
  /\ \A k, l \in TableIds : connections_[k] = connections_[l] => k = l
  /\ Cardinality(TableIds)
       <= Cardinality(AliveDrivers) + (IF acc_pc = "spawn" THEN 1 ELSE 0)
  /\ (\E c \in Stoppers : pcS[c] = "returned") => TableIds = {}

C3_Witness ==
  /\ ~stop_timer_
  /\ acc_pc = "waiting"
  /\ TableIds # {}
  /\ Cardinality(TableIds) < Cardinality(AliveDrivers)

\* C4: ConnectionIds are strictly increasing in accept order, so two accepted
\* connections never share an id, and every table entry is filed under the id
\* its connection was given.
C4_UniqueIds ==
  /\ \A i, j \in 1..Len(accepted) : i < j => accepted[i] < accepted[j]
  /\ \A k \in TableIds : accepted[connections_[k]] = k

C4_Witness ==
  /\ Len(accepted) >= 2
  /\ Cardinality(TableIds) >= 2

\* C5 as stated: with the reaper enabled and the server not stopping, no
\* connection in the table (with a live driver) is idle for more than
\* idle_timeout plus the configured check_duration.
C5_Original ==
  \A k \in TableIds :
    (ReaperOn /\ driver[connections_[k]] = "running")
      => IdleTime(connections_[k]) <= timeout_duration_ + check_duration_

\* C5 amended: with the reaper enabled and the server not stopping, no
\* connection in the table is idle for more than idle_timeout plus the
\* duration the reaper timer was last armed with (the check_duration in force
\* when set_timeout_duration or the previous tick armed it), and a tick leaves
\* no entry in the table that is idle for more than idle_timeout.
C5_Reaped ==
  \A k \in TableIds :
    ReaperOn =>
      /\ IdleTime(connections_[k]) <= timeout_duration_ + timerPeriod
      /\ th_pc = "rearm" => IdleTime(connections_[k]) <= timeout_duration_

C5_Witness ==
  /\ ReaperOn
  /\ th_pc = "rearm"
  /\ \E h \in 1..Len(accepted) :
       /\ connClosed[h]
       /\ accepted[h] \notin TableIds
       /\ IdleTime(h) = timeout_duration_ + timerPeriod

\* C12: when listen() fails at start (bind fails, or the local endpoint
\* cannot be read), the future of async_start holds address_in_use and the
\* server never runs: no pool thread, no acceptor coroutine, no connection
\* accepted or inserted, connection_count() = 0, in every later state.
C12_BindFails ==
  phase = "startFailed" =>
    /\ startResult = "address_in_use"
    /\ thd_ = "none"
    /\ poolState \in {"idle", "none"}
    /\ acc_pc = "none"
    /\ accepted = << >>
    /\ conn_id_ = 0
    /\ Cardinality(TableIds) = 0
    /\ \A h \in Conns : driver[h] = "none"

C12_Witness ==
  /\ phase = "startFailed"
  /\ acceptor_ = "closed"
  /\ closePosted = 0
  /\ now > 0
  /\ \E c \in Stoppers : pcS[c] = "noop"

\* C13: a failed accept assigns no id, inserts no entry and spawns no
\* driver; if its error is operation_aborted or bad_descriptor it sets the
\* acceptor_close_waiter_ promise and ends the loop, whose result is
\* operation_canceled; after any other error the loop is waiting in
\* async_accept again. A loop that has ended stays ended.
C13_AcceptErrors ==
  /\ [][ acc'.errors # acc.errors =>
           /\ conn_id_' = conn_id_
           /\ connections_' = connections_
           /\ accepted' = accepted
           /\ driver' = driver
           /\ IF acc'.ec \in {"operation_aborted", "bad_descriptor"}
                THEN /\ waiter' = "set"
                     /\ acc_pc' = "done"
                     /\ startResult' = "operation_canceled"
                ELSE /\ acc_pc' = "waiting"
                     /\ waiter' = waiter
                     /\ startResult' = startResult ]_vars
  /\ [][ acc_pc = "done" => (acc_pc' = "done" /\ accepted' = accepted) ]_vars
  /\ [](waiter = "set" => acc_pc = "done")

\* a connection was accepted after a transient error, and the loop was then
\* ended by closing the acceptor
C13_Witness ==
  /\ acc_pc = "done"
  /\ acc.errors = 2
  /\ acc.ec \in {"operation_aborted", "bad_descriptor"}
  /\ Len(accepted) >= 1
  /\ acc.connExec[1] = 2

\* the executors that exist: those of the owned pool, or the one
\* ExecutorWrapper out_executor_ owns
ExecutorAlive(e) == IF mode = "owned" THEN e \in 1..acc.acquired ELSE e = acc.out_executor_

\* C18 as stated: the loop obtains one executor per accepted connection (the
\* one obtained for the accept it is waiting in not counted), and the driver
\* of every connection runs on the executor obtained for it.
C18_Original ==
  /\ acc_pc = "waiting" => acc.acquired = Len(accepted) + 1
  /\ \A h \in 1..Len(accepted) :
       driver[h] = "running" =>
         /\ acc.connExec[h] \in 1..acc.acquired
         /\ ExecutorAlive(acc.connExec[h])

\* C14: the steps of a stop() that does work come in this order: the stop
\* flag is set and the timer cancelled; then the acceptor close is dispatched
\* and stop waits for the acceptor loop to set acceptor_close_waiter_; only
\* with the acceptor closed and its loop ended are the connections of the
\* table closed and the table cleared, in one step under conn_mtx_; only after
\* that is the pool stopped and thd_ joined (owned) or out_ctx_ reset
\* (borrowed).
C14_StopOrder ==
  /\ [](\A c \in Stoppers :
          /\ pcS[c] = "cancel" =>
               closePosted = 0 /\ ~futureRetrieved /\ ~stop_timer_
          /\ pcS[c] \in {"close", "wait", "closeall", "tail", "join", "returned"} =>
               stop_timer_
          /\ pcS[c] = "close" => closePosted = 0 /\ ~futureRetrieved
          /\ pcS[c] \in {"wait", "closeall", "tail", "join", "returned"} =>
               futureRetrieved
          /\ pcS[c] \in {"closeall", "tail", "join", "returned"} =>
               /\ waiter = "set"
               /\ acceptor_ = "closed"
               /\ acc_pc = "done"
               /\ closePosted = 0
          /\ pcS[c] \in {"cancel", "close", "wait", "closeall"} =>
               /\ poolState # "stopped"
               /\ thd_ # "joined"
               /\ mode = "borrowed" => out_ctx_
          /\ pcS[c] \in {"tail", "join", "returned"} => connections_ = << >>
          /\ pcS[c] \in {"join", "returned"} =>
               IF mode = "owned" THEN poolState = "stopped" ELSE ~out_ctx_
          /\ pcS[c] = "returned" => (mode = "owned" => thd_ = "joined"))
  /\ [](thd_ = "joined" => poolState = "stopped")
  /\ [][ \A c \in Stoppers :
           (pcS[c] = "closeall" /\ pcS'[c] # "closeall") =>
             /\ pcS'[c] = "tail"
             /\ connections_' = << >>
             /\ \A k \in DOMAIN connections_ : connClosed'[connections_[k]] ]_vars

C14_Witness ==
  /\ mode = "owned"
  /\ timeout_duration_ = 0
  /\ thd_ = "joined"
  /\ \E c \in Stoppers : pcS[c] = "returned"
  /\ \E h \in 1..Len(accepted) : connClosed[h] /\ driver[h] = "running"

\* C15: a sweep at time now closes and removes exactly the entries whose
\* connection has now - last_rwtime strictly greater than timeout_duration_,
\* whatever the order in which the iteration meets the entries; every other
\* entry, one idle for exactly timeout_duration_ included, stays in the table
\* with its connection, and no other connection is closed.
C15_SweepExact ==
  [][ (th_pc = "sweep" /\ th_pc' = "rearm") =>
        LET old == {k \in DOMAIN connections_ :
                      now - last_rwtime[connections_[k]] > timeout_duration_}
        IN /\ DOMAIN connections_' = (DOMAIN connections_) \ old
           /\ \A k \in DOMAIN connections_' : connections_'[k] = connections_[k]
           /\ \A h \in Conns :
                connClosed'[h] <=>
                  (connClosed[h] \/ \E k \in old : connections_[k] = h)
           /\ last_rwtime' = last_rwtime ]_vars

\* a sweep has removed one entry and kept one that was idle for exactly
\* timeout_duration_
C15_Witness ==
  /\ th_pc = "rearm"
  /\ timeout_duration_ > 0
  /\ \E k \in TableIds : IdleTime(connections_[k]) = timeout_duration_
  /\ \E h \in 1..Len(accepted) :
       /\ connClosed[h]
       /\ accepted[h] \notin TableIds
       /\ IdleTime(h) > timeout_duration_

\* C16: check_timer_ has a wait outstanding only when a timeout duration
\* greater than zero was configured, and never more than one, however often
\* set_timeout_duration is called. A wait that expires while the stop flag is
\* clear starts one sweep, after which the timer is armed again for
\* check_duration_; the callback of a cancelled wait, and one that finds the
\* stop flag set, starts no sweep, changes no table entry and arms nothing.
C16_ReaperArming ==
  /\ [](timerWaits <= 1)
  /\ [](timerWaits > 0 => (need_check_ /\ timeout_duration_ > 0))
  /\ [][ /\ (th_pc = "idle" /\ th_pc' # "idle") =>
              /\ th_pc' = "sweep"
              /\ ~stop_timer_
              /\ timerExpiry <= now
              /\ timerWaits' = timerWaits - 1
              /\ timerAborted' = timerAborted
         /\ (th_pc = "sweep" /\ th_pc' # "sweep") => th_pc' = "rearm"
         /\ (th_pc = "rearm" /\ th_pc' # "rearm") =>
              /\ th_pc' = "idle"
              /\ timerWaits' = 1
              /\ timerExpiry' = now + check_duration_
         /\ timerAborted' < timerAborted =>
              /\ th_pc' = "idle"
              /\ timerWaits' = timerWaits
              /\ connections_' = connections_
              /\ connClosed' = connClosed
         /\ (timerWaits' < timerWaits /\ timerAborted' = timerAborted /\ stop_timer_) =>
              /\ th_pc' = "idle"
              /\ timerWaits' = 0
              /\ connections_' = connections_
              /\ connClosed' = connClosed ]_vars

\* set_timeout_duration was called twice before the start, so that one wait
\* was cancelled; the wait that replaced it has expired and its callback has
\* swept and is about to arm the timer again
C16_Witness ==
  /\ mode = "owned"
  /\ phase = "running"
  /\ ~stop_timer_
  /\ th_pc = "rearm"
  /\ timerAborted = 1
  /\ timerWaits = 0
  /\ TableIds # {}

\* C17 as stated: once a stop() has returned, check_timer_ has no wait
\* outstanding and none is armed later, and no sweep starts later.
C17_Original ==
  (\E c \in Stoppers : pcS[c] = "returned") =>
    /\ timerWaits = 0
    /\ th_pc = "idle"

\* C21: the quit callback removes at most the entry of its id: when the id is
\* absent (a sweep, stop() or an earlier quit callback removed it) the table
\* is left as it is; when the id is present its entry is removed and every
\* other entry stays, filed under the same id with the same connection; and a
\* second quit callback for the same id changes nothing more. This holds of
\* the callback on every table the server reaches and of every exit of a
\* driver.
C21_RemoveIdempotent ==
  /\ [](\A id \in 1..MaxConns :
          LET once == QuitCallback(connections_, id)
          IN /\ QuitCallback(once, id) = once
             /\ id \notin TableIds => once = connections_
             /\ DOMAIN once = TableIds \ {id}
             /\ \A k \in DOMAIN once : once[k] = connections_[k])
  /\ [][ \A h \in Conns :
           (driver[h] = "running" /\ driver'[h] = "finished") =>
             /\ DOMAIN connections_' = TableIds \ {accepted[h]}
             /\ \A k \in DOMAIN connections_' : connections_'[k] = connections_[k]
             /\ accepted[h] \notin TableIds => connections_' = connections_ ]_vars

\* two drivers have exited: the entry of one had been removed by the server
\* (which closed the connection) before its quit callback ran, the entry of
\* the other was in the table until its own quit callback removed it
C21_Witness ==
  /\ TableIds = {}
  /\ \E h, g \in 1..Len(accepted) :
       /\ driver[h] = "finished" /\ connClosed[h]
       /\ driver[g] = "finished" /\ ~connClosed[g]

\* C22: the exit of a connection's driver, for whatever reason, leaves the
\* acceptor loop where it is, does not set acceptor_close_waiter_, does not
\* touch the acceptor or the result of async_start, and changes no table
\* entry, driver or connection other than its own. The callback of a timer
\* wait that completed with an error returns at once: it sweeps nothing, arms
\* nothing, and leaves the acceptor, its loop and the table as they are.
\* acceptor_close_waiter_ is set only by the loop ending on the error of a
\* closed acceptor.
C22_ErrorsContained ==
  /\ [][ \A h \in Conns :
           (driver[h] = "running" /\ driver'[h] # "running") =>
             /\ UNCHANGED <<acc_pc, waiter, acceptor_, startResult, closePosted,
                            acc, accepted, conn_id_, connClosed>>
             /\ \A g \in Conns \ {h} : driver'[g] = driver[g]
             /\ DOMAIN connections_' \subseteq TableIds
             /\ \A k \in TableIds \ {accepted[h]} :
                  k \in DOMAIN connections_' /\ connections_'[k] = connections_[k] ]_vars
  /\ [][ timerAborted' < timerAborted =>
           /\ th_pc' = "idle"
           /\ UNCHANGED <<timerWaits, timerExpiry, acc_pc, waiter, acceptor_,
                          startResult, closePosted, connections_, connClosed,
                          driver, accepted>> ]_vars
  /\ [](waiter = "set" =>
          (acc_pc = "done" /\ acc.ec \in {"operation_aborted", "bad_descriptor"}))

\* stop() has cancelled the wait of check_timer_ and the callback of that
\* wait has run with the error (the wait was not yet due, is no longer
\* outstanding and no callback is pending), and the driver of the second
\* connection has exited while the first was in the table; the acceptor is
\* open, its loop is waiting in async_accept, acceptor_close_waiter_ is not
\* set and the entry of the first connection is in place
C22_Witness ==
  /\ need_check_ /\ stop_timer_
  /\ timerWaits = 0 /\ timerAborted = 0 /\ th_pc = "idle"
  /\ now < timerExpiry
  /\ acc_pc = "waiting" /\ acceptor_ = "listening" /\ waiter = "unset"
  /\ \E g, h \in 1..Len(accepted) :
       /\ g < h
       /\ driver[h] = "finished"
       /\ driver[g] = "running"
       /\ accepted[g] \in TableIds
       /\ connections_[accepted[g]] = g

\* C23 as stated: every call of stop() eventually returns (at the entry
\* guard or at its end), whatever the construction mode and whether the server
\* was never started, failed to start, is running or was stopped before.
C23_Original ==
  \A c \in Stoppers : (pcS[c] # "idle") ~> (pcS[c] \in {"noop", "returned"})

\* C24: acceptor_close_waiter_ is set at most once, by the acceptor loop in
\* the step in which it ends (a set promise is never set again and never
\* reset). Once it is set the loop stays ended: no connection is accepted, no
\* ConnectionId is assigned, no accept fails, no driver is spawned and no
\* entry is inserted into the table, entries can only leave it; so from the
\* moment stop() has cleared the table it is empty in every later state.
C24_SignalOnce ==
  /\ [][ waiter' # waiter =>
           /\ waiter = "unset" /\ waiter' = "set"
           /\ acc_pc = "waiting" /\ acc_pc' = "done" ]_vars
  /\ [][ (acc_pc # "done" /\ acc_pc' = "done") =>
           (waiter = "unset" /\ waiter' = "set") ]_vars
  /\ [][ waiter = "set" =>
           /\ waiter' = "set"
           /\ acc_pc' = "done"
           /\ UNCHANGED <<conn_id_, accepted, acc>>
           /\ \A h \in Conns : driver[h] = "none" => driver'[h] = "none"
           /\ DOMAIN connections_' \subseteq TableIds ]_vars
  /\ [](\A c \in Stoppers :
          pcS[c] \in {"tail", "join", "returned"} =>
            (waiter = "set" /\ connections_ = << >>))

\* after a failed accept that did not end the loop and an accepted
\* connection, stop() on a borrowed-reactor server has returned: the promise
\* is set, the loop has ended, and the driver of a connection that stop()
\* closed has exited into the cleared table, which is still empty
C24_Witness ==
  /\ mode = "borrowed"
  /\ waiter = "set" /\ acc_pc = "done"
  /\ acc.errors = 2
  /\ \E c \in Stoppers : pcS[c] = "returned"
  /\ \E h \in 1..Len(accepted) : driver[h] = "finished" /\ connClosed[h]
  /\ connections_ = << >>

\* ------------------------------------------------------------ static files
\* One run of the GET handler set_static_res_dir registers for a file.
\* The file holds st.size bytes; byte number p of the file is written p, so
\* a sequence of bytes names the positions it was read from.

Min(a, b) == IF a < b THEN a ELSE b

\* CRCF, BOUNDARY and MULTIPART_END (cinatra/define.h): their lengths.
\* build_part_heads accounts CRCF.size() for every part and
\* BOUNDARY.size() + 4 for the end token.
CRCFLen == 2
BoundaryLen == 33
MultipartEndLen == CRCFLen + BoundaryLen + 4

\* std::to_string(n).size()
RECURSIVE Digits(_)
Digits(n) == IF n < 10 THEN 1 ELSE 1 + Digits(n \div 10)

\* the bytes a read of n bytes at position pos returns
FileBytes(pos, n) == [i \in 1..n |-> pos + i - 1]

\* in_file.async_read(buf, n) at position pos of a file of size bytes: the
\* number of bytes read
ReadSize(pos, n, size) == Min(n, IF size > pos THEN size - pos ELSE 0)

\* what parse_ranges returns for a valid Range header: [start, end] pairs
\* inside the file, in the order of the header
ValidRanges(size) == {r \in (0..(size - 1)) \X (0..(size - 1)) : r[1] <= r[2]}
RangeSeqs(size) == UNION {[1..k -> ValidRanges(size)] : k \in 1..MaxRanges}

\* the Range header of the request: absent, without '=', rejected by
\* parse_ranges, or parsed into ranges
Requests(size) ==
  [kind : {"none", "noeq", "invalid"}, ranges : {<< >>}]
    \cup [kind : {"valid"}, ranges : RangeSeqs(size)]

\* one write on the connection
Op(t, x, y, d) == [t |-> t, x |-> x, y |-> y, d |-> d]

\* build_range_header(mime, filename, len, status, content_range):
\* x is <<status, Content-Length>>, y the Content-Range <<start, end, total>>
RangeHeader(status, len, crange) == Op("range_header", <<status, len>>, crange, << >>)

\* the length of one part header build_part_heads builds
PartHeadLen(start, end, total) ==
  2 + BoundaryLen + CRCFLen
    + 14 + MimeLen + CRCFLen
    + 15 + 6 + Digits(start) + 1 + Digits(end) + 1 + Digits(total) + 2 * CRCFLen

\* multi_heads[i] of build_part_heads
PartHeader(r, total) == Op("part_header", r, <<total>>, << >>)

\* content_len of build_part_heads
RECURSIVE ContentLen(_, _)
ContentLen(ranges, total) ==
  IF ranges = << >>
    THEN BoundaryLen + 4
    ELSE LET r == Head(ranges)
         IN PartHeadLen(r[1], r[2], total) + (r[2] + 1 - r[1] + CRCFLen)
              + ContentLen(Tail(ranges), total)

\* build_multiple_range_header(content_len)
MultiHeader(len) == Op("multi_header", <<206, len>>, << >>, << >>)

\* single part: int status = (part_size == file_size) ? 200 : 206
RangeStatus(part_size, file_size) == IF part_size = file_size THEN 200 ELSE 206

\* multipart: more = CRCF, or MULTIPART_END for the last range
MoreOf(i, k) == IF i = k THEN "multipart_end" ELSE "crcf"

\* the handler's state when it is entered
StStart(size, chunk, cached, format, openOk, req) ==
  [pc |-> "start", size |-> size, chunked_size_ |-> chunk, cached |-> cached,
   format_type_ |-> format, openOk |-> openOk, req |-> req,
   wire |-> << >>, pos |-> 0, eof |-> FALSE, buf |-> << >>, i |-> 0,
   part_size |-> 0, more |-> "", status |-> 200, delay |-> FALSE,
   begun |-> FALSE, readErr |-> FALSE, writeErr |-> FALSE,
   path |-> "none", failAt |-> 0]

InitStatic ==
  /\ LifeInit("owned")
  /\ px = PxIdle
  /\ \E size \in 0..MaxFileSize, chunk \in 1..MaxChunk, cached \in BOOLEAN,
        format \in {"chunked", "range"}, openOk \in BOOLEAN :
       \E req \in Requests(size) :
         st = StStart(size, chunk, cached, format, openOk, req)

\* lines 305-332 and the branch the handler takes (334, 364-377, 440);
\* path records the branch
StEnter ==
  /\ st.pc = "start"
  /\ st' =
       IF st.cached
         THEN [st EXCEPT !.pc = "cached_write", !.delay = TRUE, !.path = "cached"]
       ELSE IF ~st.openOk
         THEN [st EXCEPT !.pc = "done", !.status = 404, !.path = "not_found"]
       ELSE IF st.format_type_ = "chunked" /\ st.req.kind = "none"
         THEN [st EXCEPT !.pc = "begin_chunked", !.path = "chunked"]
       ELSE IF st.req.kind = "invalid"
         THEN [st EXCEPT !.pc = "done", !.status = 416, !.path = "not_satisfiable"]
       ELSE IF st.req.kind = "valid" /\ Len(st.req.ranges) = 1
         THEN LET r == st.req.ranges[1]
              IN [st EXCEPT !.pc = "single_header", !.pos = r[1],
                            !.part_size = r[2] + 1 - r[1], !.delay = TRUE,
                            !.path = "single"]
       ELSE IF st.req.kind = "valid"
         THEN [st EXCEPT !.pc = "multi_header", !.delay = TRUE, !.path = "multi"]
       ELSE [st EXCEPT !.pc = "full_header", !.delay = TRUE, !.path = "full"]
  /\ UNCHANGED <<lifeVars, px>>

\* mutant: a failed write is noted and the handler goes on
WriteFailedGoesOn(s) == [s EXCEPT !.writeErr = TRUE, !.failAt = Len(s.wire)]

\* a write that fails: co_return. failAt is the number of writes made
\* before the failure.
WriteFailed(s) ==
  [s EXCEPT !.pc = "done", !.writeErr = TRUE, !.failAt = Len(s.wire)]

\* cache hit: async_write of the 200 header and the cached body; its result
\* is not looked at
StCachedWrite(ok) ==
  /\ st.pc = "cached_write"
  /\ st' = IF ok
             THEN [st EXCEPT !.pc = "done",
                             !.wire = <<RangeHeader(200, st.size, << >>),
                                        Op("data", << >>, << >>, FileBytes(0, st.size))>>]
             ELSE WriteFailed(st)
  /\ UNCHANGED <<lifeVars, px>>

\* mutant: the loop is left at eof without the terminating chunk
AfterChunkNoEnd(eof) == IF eof THEN "done" ELSE "chunk_read"

\* after a chunk was written: if (in_file.eof()) { end_chunked(); break; }
AfterChunk(eof) == IF eof THEN "end_chunked" ELSE "chunk_read"

\* one async_read of n bytes that succeeds: the buffer, the position and
\* eof (set by a read that comes up short)
ReadInto(s, n) ==
  LET got == ReadSize(s.pos, n, s.size)
  IN [s EXCEPT !.buf = FileBytes(s.pos, got), !.pos = s.pos + got,
               !.eof = (got < n)]

\* a read that fails: resp.set_status(no_content); reply(); co_return
ReadFailed(s) ==
  [s EXCEPT !.pc = "done", !.readErr = TRUE, !.status = 204,
            !.failAt = Len(s.wire),
            !.wire = Append(s.wire, Op("reply", <<204>>, << >>, << >>))]

\* ---- chunked transfer (334-362)

StBeginChunked(ok) ==
  /\ st.pc = "begin_chunked"
  /\ st' = IF ok
             THEN [st EXCEPT !.pc = "chunk_read", !.begun = TRUE,
                             !.wire = Append(st.wire, Op("begin_chunked", << >>, << >>, << >>))]
             ELSE WriteFailed(st)
  /\ UNCHANGED <<lifeVars, px>>

StChunkRead(err) ==
  /\ st.pc = "chunk_read"
  /\ st' = IF err
             THEN ReadFailed(st)
             ELSE [ReadInto(st, st.chunked_size_) EXCEPT !.pc = "chunk_write"]
  /\ UNCHANGED <<lifeVars, px>>

StChunkWrite(ok) ==
  /\ st.pc = "chunk_write"
  /\ st' = IF ok
             THEN [st EXCEPT !.pc = AfterChunk(st.eof),
                             !.wire = Append(st.wire, Op("chunk", << >>, << >>, st.buf))]
             ELSE WriteFailed(st)
  /\ UNCHANGED <<lifeVars, px>>

StEndChunked ==
  /\ st.pc = "end_chunked"
  /\ st' = [st EXCEPT !.pc = "done",
                      !.wire = Append(st.wire, Op("end_chunked", << >>, << >>, << >>))]
  /\ UNCHANGED <<lifeVars, px>>

\* ---- the whole file in one response (440-466)

StFullHeader(ok) ==
  /\ st.pc = "full_header"
  /\ st' = IF ok
             THEN [st EXCEPT !.pc = "full_read",
                             !.wire = Append(st.wire, RangeHeader(200, st.size, << >>))]
             ELSE WriteFailed(st)
  /\ UNCHANGED <<lifeVars, px>>

StFullRead(err) ==
  /\ st.pc = "full_read"
  /\ st' = IF err
             THEN ReadFailed(st)
             ELSE [ReadInto(st, st.chunked_size_) EXCEPT !.pc = "full_write"]
  /\ UNCHANGED <<lifeVars, px>>

StFullWrite(ok) ==
  /\ st.pc = "full_write"
  /\ st' = IF ok
             THEN [st EXCEPT !.pc = IF st.eof THEN "done" ELSE "full_read",
                             !.wire = Append(st.wire, Op("data", << >>, << >>, st.buf))]
             ELSE WriteFailed(st)
  /\ UNCHANGED <<lifeVars, px>>

\* ---- ranges (377-436) and send_single_part (688-726)

\* single part: the header with Content-Range and the part's length
StSingleHeader(ok) ==
  /\ st.pc = "single_header"
  /\ st' = IF ok
             THEN LET r == st.req.ranges[1]
                  IN [st EXCEPT !.pc = "part_read", !.more = "",
                                !.wire = Append(st.wire,
                                   RangeHeader(RangeStatus(st.part_size, st.size),
                                               st.part_size,
                                               <<r[1], r[2], st.size>>))]
             ELSE WriteFailed(st)
  /\ UNCHANGED <<lifeVars, px>>

\* multipart: build_part_heads and the 206 multipart header
StMultiHeader(ok) ==
  /\ st.pc = "multi_header"
  /\ st' = IF ok
             THEN [st EXCEPT !.pc = "part_header", !.i = 1,
                             !.wire = Append(st.wire,
                                MultiHeader(ContentLen(st.req.ranges, st.size)))]
             ELSE WriteFailed(st)
  /\ UNCHANGED <<lifeVars, px>>

\* multipart: write multi_heads[i], seek to the range's start
StPartHeader(ok) ==
  /\ st.pc = "part_header"
  /\ st' = IF ok
             THEN LET r == st.req.ranges[st.i]
                  IN [st EXCEPT !.pc = "part_read", !.pos = r[1],
                                !.part_size = r[2] + 1 - r[1],
                                !.more = MoreOf(st.i, Len(st.req.ranges)),
                                !.wire = Append(st.wire, PartHeader(r, st.size))]
             ELSE WriteFailed(st)
  /\ UNCHANGED <<lifeVars, px>>

\* send_single_part: read_size = min(part_size, chunked_size_); async_read;
\* part_size -= read_size
StPartRead(err) ==
  /\ st.pc = "part_read"
  /\ st' = IF err
             THEN ReadFailed(st)
             ELSE LET read_size == Min(st.part_size, st.chunked_size_)
                  IN [ReadInto(st, read_size) EXCEPT
                        !.pc = "part_write", !.part_size = st.part_size - read_size]
  /\ UNCHANGED <<lifeVars, px>>

\* where the handler goes when send_single_part returned true
AfterPart(s) ==
  IF s.req.kind = "valid" /\ Len(s.req.ranges) > 1 /\ s.i < Len(s.req.ranges)
    THEN [s EXCEPT !.pc = "part_header", !.i = s.i + 1]
    ELSE [s EXCEPT !.pc = "done"]

\* what one iteration of send_single_part writes: the bytes read, and with
\* them `more` when it is not empty
PartWrite(s) ==
  <<Op("data", << >>, << >>, s.buf)>>
    \o (IF s.more = "" THEN << >> ELSE <<Op(s.more, << >>, << >>, << >>)>>)

\* send_single_part: write the bytes read; the loop ends when read_size is 0
StPartWrite(ok) ==
  /\ st.pc = "part_write"
  /\ st' = IF ok
             THEN LET w == [st EXCEPT !.wire = st.wire \o PartWrite(st)]
                  IN IF Min(w.part_size, w.chunked_size_) = 0
                       THEN AfterPart(w)
                       ELSE [w EXCEPT !.pc = "part_read"]
             ELSE WriteFailed(st)
  /\ UNCHANGED <<lifeVars, px>>

NextStatic ==
  \/ StEnter
  \/ \E ok \in BOOLEAN : StCachedWrite(ok)
  \/ \E ok \in BOOLEAN : StBeginChunked(ok)
  \/ \E err \in BOOLEAN : StChunkRead(err)
  \/ \E ok \in BOOLEAN : StChunkWrite(ok)
  \/ StEndChunked
  \/ \E ok \in BOOLEAN : StFullHeader(ok)
  \/ \E err \in BOOLEAN : StFullRead(err)
  \/ \E ok \in BOOLEAN : StFullWrite(ok)
  \/ \E ok \in BOOLEAN : StSingleHeader(ok)
  \/ \E ok \in BOOLEAN : StMultiHeader(ok)
  \/ \E ok \in BOOLEAN : StPartHeader(ok)
  \/ \E err \in BOOLEAN : StPartRead(err)
  \/ \E ok \in BOOLEAN : StPartWrite(ok)

SpecStatic == InitStatic /\ [][NextStatic]_vars

\* ------------------------------------------------- static files: properties

Last(w) == w[Len(w)]

\* the handler returned and every read and write it made succeeded
StCompleted == st.pc = "done" /\ ~st.readErr /\ ~st.writeErr

\* the file bytes the writes of w carry, in the order written
RECURSIVE BodyBytes(_)
BodyBytes(w) ==
  IF w = << >> THEN << >>
  ELSE (IF Head(w).t = "data" THEN Head(w).d ELSE << >>) \o BodyBytes(Tail(w))

\* the writes of w as the stream they put on the connection: every file byte,
\* part header, CRLF and MULTIPART_END one element, <<kind, a, b>>
Stream(op) ==
  IF op.t = "data" THEN [j \in 1..Len(op.d) |-> <<0, op.d[j], 0>>]
  ELSE IF op.t = "crcf" THEN << <<1, 0, 0>> >>
  ELSE IF op.t = "multipart_end" THEN << <<2, 0, 0>> >>
  ELSE << <<3, op.x[1], op.x[2]>> >>

RECURSIVE StreamOf(_)
StreamOf(w) == IF w = << >> THEN << >> ELSE Stream(Head(w)) \o StreamOf(Tail(w))

\* part_header_1, bytes(R1), CRLF, ..., part_header_k, bytes(Rk), MULTIPART_END
RECURSIVE ExpectedParts(_, _, _)
ExpectedParts(ranges, i, total) ==
  IF i > Len(ranges) THEN << >>
  ELSE LET r == ranges[i]
       IN Stream(PartHeader(r, total))
            \o Stream(Op("data", << >>, << >>, FileBytes(r[1], r[2] + 1 - r[1])))
            \o Stream(Op(MoreOf(i, Len(ranges)), << >>, << >>, << >>))
            \o ExpectedParts(ranges, i + 1, total)

\* the number of bytes one write puts on the connection
WireLen(op) ==
  IF op.t = "data" THEN Len(op.d)
  ELSE IF op.t = "crcf" THEN CRCFLen
  ELSE IF op.t = "multipart_end" THEN MultipartEndLen
  ELSE PartHeadLen(op.x[1], op.x[2], op.y[1])

RECURSIVE WireLenOf(_)
WireLenOf(w) == IF w = << >> THEN 0 ELSE WireLen(Head(w)) + WireLenOf(Tail(w))

IsSingleRange == st.pc # "off" /\ st.req.kind = "valid" /\ Len(st.req.ranges) = 1
IsMultiRange == st.pc # "off" /\ st.req.kind = "valid" /\ Len(st.req.ranges) >= 2
Served == st.pc # "off" /\ (st.cached \/ st.openOk)

\* C6 as stated: a completed response to a valid single range bytes=a-b of a
\* file of size S, cached or not, has the header with Content-Range a-b/S,
\* Content-Length b+1-a and status 206 (200 when the range is the whole
\* file), and its body is exactly bytes a..b of the file.
C6_Original ==
  (IsSingleRange /\ Served /\ StCompleted) =>
    LET r == st.req.ranges[1]
        n == r[2] + 1 - r[1]
    IN /\ st.wire # << >>
       /\ Head(st.wire) =
            RangeHeader(IF n = st.size THEN 200 ELSE 206, n, <<r[1], r[2], st.size>>)
       /\ BodyBytes(Tail(st.wire)) = FileBytes(r[1], n)

\* C7 as stated: a completed multi-range response of a file read from disk
\* writes, after the multipart header, part_header_i, bytes(Ri) and CRLF for
\* every part in parsing order, MULTIPART_END in place of the last CRLF, and
\* nothing else.
C7_Original ==
  (IsMultiRange /\ ~st.cached /\ st.openOk /\ StCompleted) =>
    /\ st.wire # << >>
    /\ Head(st.wire).t = "multi_header"
    /\ StreamOf(Tail(st.wire)) = ExpectedParts(st.req.ranges, 1, st.size)

\* C8 as stated: a completed multi-range response of a file read from disk
\* advertises in its 206 multipart header a Content-Length equal to the
\* number of bytes written after that header.
C8_Original ==
  (IsMultiRange /\ ~st.cached /\ st.openOk /\ StCompleted) =>
    /\ st.wire # << >>
    /\ Head(st.wire).t = "multi_header"
    /\ Head(st.wire).x[2] = WireLenOf(Tail(st.wire))

\* the number of end_chunked writes in w
RECURSIVE EndChunks(_)
EndChunks(w) ==
  IF w = << >> THEN 0
  ELSE (IF Head(w).t = "end_chunked" THEN 1 ELSE 0) + EndChunks(Tail(w))

ChunkedDone == st.pc = "done" /\ st.begun

\* C9 as stated: every begun chunked response ends with the terminating
\* zero-length chunk, on every path out of the handler: end_chunked is its
\* last write.
C9_Original ==
  ChunkedDone => Last(st.wire).t = "end_chunked"

\* C9 amended: a begun chunked response whose reads and writes all succeed
\* carries every byte of the file in chunks and ends with end_chunked, its
\* last write and the only one; after a read error the last write is the
\* single reply with status 204, and after a failed write nothing more is
\* written: in both cases no end_chunked is written.
C9_ChunkedEnds ==
  ChunkedDone =>
    /\ Head(st.wire).t = "begin_chunked"
    /\ \A j \in 2..Len(st.wire) :
         st.wire[j].t \in {"chunk", "end_chunked", "reply"}
    /\ StCompleted =>
         /\ Last(st.wire).t = "end_chunked"
         /\ EndChunks(st.wire) = 1
         /\ \A j \in 2..(Len(st.wire) - 1) : st.wire[j].t = "chunk"
    /\ st.readErr =>
         /\ Last(st.wire) = Op("reply", <<204>>, << >>, << >>)
         /\ st.status = 204
         /\ EndChunks(st.wire) = 0
         /\ \A j \in 2..(Len(st.wire) - 1) : st.wire[j].t = "chunk"
    /\ st.writeErr =>
         /\ EndChunks(st.wire) = 0
         /\ \A j \in 2..Len(st.wire) : st.wire[j].t = "chunk"

C9_Witness ==
  /\ ChunkedDone
  /\ StCompleted
  /\ Len(st.wire) >= 4
  /\ Last(st.wire).t = "end_chunked"

\* C19 as stated: for a file that exists, the cached body with its 200
\* header is sent only for a cached file and a request without Range; without
\* Range an uncached file is sent chunked when format_type_ is chunked and
\* as a 200 header with the streamed file otherwise; with a Range header the
\* single-part, multipart or 416 path is taken, for a cached file too.
C19_Original ==
  (st.pc \notin {"off", "start"} /\ Served) =>
    /\ st.path = "cached" <=> (st.cached /\ st.req.kind = "none")
    /\ (st.req.kind = "none" /\ ~st.cached) =>
         st.path = IF st.format_type_ = "chunked" THEN "chunked" ELSE "full"
    /\ st.req.kind # "none" => st.path \in {"single", "multi", "not_satisfiable"}

\* C20 as stated: after a failed write or a failed file read the handler
\* makes no further write and no reply.
C20_Original ==
  (st.pc # "off" /\ (st.readErr \/ st.writeErr)) =>
    /\ st.pc = "done"
    /\ Len(st.wire) = st.failAt

\* C20 amended: after a failed write the handler returns without any
\* further write or reply; after a failed file read it sets status 204,
\* replies once and returns without any further write. This holds on the
\* chunked, full-file, single-range and multi-range paths, and a handler that
\* has returned writes nothing more.
C20_StopsOnFailure ==
  /\ [](st.pc # "off" =>
          /\ st.writeErr => (st.pc = "done" /\ ~st.readErr /\ Len(st.wire) = st.failAt)
          /\ st.readErr =>
               /\ st.pc = "done"
               /\ ~st.writeErr
               /\ st.path \in {"chunked", "full", "single", "multi"}
               /\ st.status = 204
               /\ Len(st.wire) = st.failAt + 1
               /\ Last(st.wire) = Op("reply", <<204>>, << >>, << >>)
               /\ \A j \in 1..st.failAt : st.wire[j].t # "reply"
          /\ (~st.readErr /\ ~st.writeErr) =>
               \A j \in 1..Len(st.wire) : st.wire[j].t # "reply")
  /\ [][(st.pc = "done") => (st' = st)]_vars

\* a multi-range response whose second part could not be read
C20_Witness ==
  /\ st.pc = "done"
  /\ st.path = "multi"
  /\ st.readErr
  /\ st.i = 2
  /\ st.failAt >= 4

\* ------------------------------------------------------------------- proxy
\* One request dispatched to a route registered by set_http_proxy_handler.

MaxHeaders == 2
MaxBody == 1
MaxHosts == 2

\* a header is a <<key, value>> pair
HeaderPairs == {<<k, v>> : k \in 1..MaxHeaders, v \in 1..MaxHeaders}
\* header maps: at most one value per key
HeaderMaps == {H \in SUBSET HeaderPairs : \A g, h \in H : g[1] = h[1] => g = h}
Methods == {"GET", "POST"}
Bodies == 0..MaxBody
Statuses == {200, 404, 502}
Hosts == 1..MaxHosts

\* reply(): std::unordered_map req_headers; for (auto &[k, v] : req_headers)
\* req_headers.emplace(k, v);  the loop runs over the new, empty map
ReqHeaders(incoming) ==
  LET req_headers == {}
  IN req_headers \cup {kv \in req_headers : TRUE}

\* client.async_request(url_path, method_type(req.get_method()), ctx, req_headers)
UpstreamRequest(host, method, body, incoming) ==
  [host |-> host, method |-> method, body |-> body, headers |-> ReqHeaders(incoming)]

\* response.add_header for every result.resp_headers entry, then
\* set_status_and_content_view(result.status, result.resp_body)
ClientResponse(result) ==
  [status |-> result.status, body |-> result.body, headers |-> result.headers]

NoMsg == [status |-> 0, body |-> 0, headers |-> {}]
NoReq == [host |-> 0, method |-> "", body |-> 0, headers |-> {}]

PxStart(method, body, headers) ==
  [pc |-> "handler", method |-> method, body |-> body, headers |-> headers,
   host |-> 0, sent |-> NoReq, result |-> NoMsg, resp |-> NoMsg,
   replied |-> FALSE, delay |-> FALSE]

InitProxy ==
  /\ LifeInit("owned")
  /\ st = StIdle
  /\ \E method \in Methods, body \in Bodies, headers \in HeaderMaps :
       px = PxStart(method, body, headers)

\* the handler lambda: channel->send_request picks a client by the load
\* balancing algorithm and calls reply() with it
PxSendRequest(host) ==
  /\ px.pc = "handler"
  /\ px' = [px EXCEPT !.pc = "request", !.host = host]
  /\ UNCHANGED <<lifeVars, st>>

\* reply(): build the upstream request and await its result
PxAsyncRequest(result) ==
  /\ px.pc = "request"
  /\ px' = [px EXCEPT !.pc = "copy",
                      !.sent = UpstreamRequest(px.host, px.method, px.body, px.headers),
                      !.result = result]
  /\ UNCHANGED <<lifeVars, st>>

\* reply(): copy the upstream headers, status and body to the response
PxCopy ==
  /\ px.pc = "copy"
  /\ px' = [px EXCEPT !.pc = "reply", !.resp = ClientResponse(px.result)]
  /\ UNCHANGED <<lifeVars, st>>

\* reply(): co_await response.get_conn()->reply(); response.set_delay(true)
PxReply ==
  /\ px.pc = "reply"
  /\ px' = [px EXCEPT !.pc = "done", !.replied = TRUE, !.delay = TRUE]
  /\ UNCHANGED <<lifeVars, st>>

NextProxy ==
  \/ \E host \in Hosts : PxSendRequest(host)
  \/ \E status \in Statuses, body \in Bodies, headers \in HeaderMaps :
       PxAsyncRequest([status |-> status, body |-> body, headers |-> headers])
  \/ PxCopy
  \/ PxReply

SpecProxy == InitProxy /\ [][NextProxy]_vars

\* C10 as stated: the upstream request of a proxied request carries the
\* incoming method, the incoming body and every header of the incoming
\* request, and the client response is the upstream response: its status, its
\* body and every one of its headers, unchanged.
C10_Original ==
  px.pc = "done" =>
    /\ px.sent.method = px.method
    /\ px.sent.body = px.body
    /\ px.headers \subseteq px.sent.headers
    /\ px.resp = px.result
    /\ px.replied

\* ------------------------------------------------------ static configuration
\* Calls of set_static_res_dir(uri_suffix, file_path) on one server. Paths
\* are strings over PathChars; the directory tree is the collaborator's
\* (std::filesystem), so what the directory iteration finds is an input.

MaxPathLen == 2
MaxFiles == 2
MaxCalls == 2

PathChars == {"/", "."}
Paths == UNION {[1..n -> PathChars] : n \in 0..MaxPathLen}
\* the directory holds its first n files, n \in 0..MaxFiles
Listings == {1..n : n \in 0..MaxFiles}

\* s.find("..") != std::string::npos
HasDoubleDot(s) == \E i \in 1..(Len(s) - 1) : s[i] = "." /\ s[i + 1] = "."

\* std::filesystem::path(s).has_root_path(), POSIX: the path starts with '/'
HasRootPath(s) == Len(s) > 0 /\ s[1] = "/"

\* mutant: only the directory is inspected
InvalidStaticPathDirOnly(uri_suffix, file_path) ==
  HasRootPath(file_path) \/ HasDoubleDot(file_path)

\* the condition under which set_static_res_dir calls std::exit(1)
InvalidStaticPath(uri_suffix, file_path) ==
  LET has_double_dot == HasDoubleDot(file_path) \/ HasDoubleDot(uri_suffix)
  IN HasRootPath(file_path) \/ HasRootPath(uri_suffix) \/ has_double_dot

\* fs::absolute(fs::current_path()): some absolute path
CurrentPath == <<"/">>

\* the uri a file is registered under: "/" + static_dir_router_path_ +
\* relative_path, or relative_path alone; a file is named by its directory
\* and its name in it, a uri by its prefix and the file's name
RouteOf(router_path, file) == <<router_path, file[2]>>

CfgStart ==
  [pc |-> "config", static_dir_router_path_ |-> << >>, static_dir_ |-> << >>,
   files_ |-> {}, routes |-> {}, exit_code |-> 0, calls |-> 0,
   uri_suffix |-> << >>, file_path |-> << >>]

InitConfig ==
  /\ LifeInit("owned")
  /\ px = PxIdle
  /\ st = CfgStart

\* set_static_res_dir(uri_suffix, file_path); found is what
\* recursive_directory_iterator(static_dir_) yields (nothing on error)
SetStaticResDir(uri_suffix, file_path, found) ==
  /\ st.pc = "config"
  /\ st.calls < MaxCalls
  /\ LET called == [st EXCEPT !.calls = st.calls + 1, !.uri_suffix = uri_suffix,
                              !.file_path = file_path]
     IN IF InvalidStaticPath(uri_suffix, file_path)
          THEN st' = [called EXCEPT !.pc = "exited", !.exit_code = 1]
          ELSE LET router_path == IF uri_suffix # << >> THEN uri_suffix
                                  ELSE st.static_dir_router_path_
                   dir == IF file_path # << >> THEN file_path ELSE CurrentPath
                   files == {<<dir, f>> : f \in found}
               IN st' = [called EXCEPT
                           !.static_dir_router_path_ = router_path,
                           !.static_dir_ = dir,
                           !.files_ = files,
                           !.routes = st.routes
                                        \cup {RouteOf(router_path, file) : file \in files}]
  /\ UNCHANGED <<lifeVars, px>>

NextConfig ==
  \E uri_suffix \in Paths, file_path \in Paths, found \in Listings :
    SetStaticResDir(uri_suffix, file_path, found)

SpecConfig == InitConfig /\ [][NextConfig]_vars

\* a path that contains ".." or is rooted, in the claim's words
DotDotOrRooted(s) ==
  \/ \E i, j \in 1..Len(s) : j = i + 1 /\ s[i] = "." /\ s[j] = "."
  \/ (s # << >> /\ Head(s) = "/")

\* C11: a call of set_static_res_dir whose directory or URI prefix contains
\* ".." or is rooted terminates the process with exit code 1 and leaves the
\* routes, the static directory, the URI prefix and the file catalog as they
\* were; a terminated process makes no further call.
C11_ExitBeforeChange ==
  /\ [](st.pc = "exited" <=> st.exit_code = 1)
  /\ [][ /\ st.pc = "exited" => st' = st
         /\ (st'.calls = st.calls + 1
             /\ (DotDotOrRooted(st'.uri_suffix) \/ DotDotOrRooted(st'.file_path)))
              => /\ st'.pc = "exited"
                 /\ st'.exit_code = 1
                 /\ st'.routes = st.routes
                 /\ st'.static_dir_ = st.static_dir_
                 /\ st'.static_dir_router_path_ = st.static_dir_router_path_
                 /\ st'.files_ = st.files_ ]_vars

C11_Witness ==
  /\ st.pc = "exited"
  /\ st.calls = 2
  /\ st.routes # {}
  /\ st.files_ # {}
  /\ DotDotOrRooted(st.uri_suffix)
  /\ ~DotDotOrRooted(st.file_path)

====
